---- MODULE Spec2Model ----
(***************************************************************************)
(* Model of src/spotify_playlist_downloader.py: the URL classifier, the    *)
(* metadata normaliser (fetch_playlist_data), the filename sanitiser and   *)
(* the per-track download loop of download_collection.                     *)
(*                                                                         *)
(* Python strings are sequences of one-character strings.  JSON values     *)
(* are tagged records [tag, v]: "dict" (v a function from keys), "list"    *)
(* (v a sequence of JSON values), "str" (v a character sequence), "num"    *)
(* and "null".  None is the JSON value of tag "null".                      *)
(***************************************************************************)
EXTENDS Integers, Sequences, FiniteSets, TLC

VARIABLES
    pc,             \* position of the program
    url,            \* spotify_url argument of download_collection
    url_type,       \* local url_type (get_url_type result)
    valid,          \* result of is_valid_spotify_url in the URL check
    temp_file,      \* temp file of fetch_playlist_data: "none", "exists", "deleted"
    save_exit,      \* how `spotdl save` ended: "none", "zero", "nonzero", "spawn_error"
    file_content,   \* what the temp file holds after spotdl save
    metadata,       \* return value of fetch_playlist_data
    collection_name,\* local collection_name
    tracks,         \* local tracks
    folder,         \* name of the collection folder under output_dir
    dirs,           \* sub-directories of output_dir
    files,          \* files below output_dir: set of <<directory, file name>>
    i,              \* loop index of enumerate(tracks, 1)
    success_count,
    failed_count,
    cur,            \* locals of the current iteration (title, artist_str, ...)
    success,        \* local success of the current iteration
    youtube_url,    \* result of search_youtube_track
    calls,          \* external tool invocations of this run, in order
    processed,      \* indices of the tracks the loop body was entered for
    outcomes,       \* how each finished iteration ended, in order
    result,         \* return value of download_collection: "none", TRUE, FALSE
    san_in,         \* argument of clean_filename when it is applied on its own
    san_out,        \* clean_filename(san_in)
    san_twice,      \* clean_filename(san_out)
    track_in,       \* argument of extract_track_details when it is applied on its own
    track_out,      \* extract_track_details(track_in)
    run,            \* 1 in the first download of a collection, 2 when it is downloaded again
    prev_run,       \* what the first download left: its outcomes, in order
    user_input,     \* stripped line read by the download sub-flow
    prompts,        \* number of lines the download sub-flow has read
    dl_outcome      \* how the last download started by the sub-flow ended

vars == <<pc, url, url_type, valid, temp_file, save_exit, file_content,
          metadata, collection_name, tracks, folder, dirs, files, i,
          success_count, failed_count, cur, success, youtube_url, calls,
          processed, outcomes, result, san_in, san_out, san_twice, track_in,
          track_out, run, prev_run, user_input, prompts, dl_outcome>>

(***************************************************************************)
(* Bounds                                                                  *)
(***************************************************************************)
MaxSegs == 4
MaxTracks == 2

(***************************************************************************)
(* Strings                                                                 *)
(***************************************************************************)
UpperChars ==
    <<"A","B","C","D","E","F","G","H","I","J","K","L","M","N","O","P","Q","R","S","T","U","V","W","X","Y","Z">>
LowerChars ==
    <<"a","b","c","d","e","f","g","h","i","j","k","l","m","n","o","p","q","r","s","t","u","v","w","x","y","z">>
Digits ==
    {"0","1","2","3","4","5","6","7","8","9"}

Range(s) == {s[k] : k \in DOMAIN s}

IsUpper(c) == c \in Range(UpperChars)
IsLower(c) == c \in Range(LowerChars)

LowerChar(c) ==
    IF IsUpper(c) THEN LowerChars[CHOOSE k \in DOMAIN UpperChars : UpperChars[k] = c] ELSE c
UpperChar(c) ==
    IF IsLower(c) THEN UpperChars[CHOOSE k \in DOMAIN LowerChars : LowerChars[k] = c] ELSE c

\* str.lower()
Lower(s) == [k \in DOMAIN s |-> LowerChar(s[k])]

\* str.title(): first cased character of every run of letters upper, the rest lower
Title(s) ==
    [k \in DOMAIN s |->
        IF k = 1 \/ ~(IsUpper(s[k - 1]) \/ IsLower(s[k - 1]))
        THEN UpperChar(s[k]) ELSE LowerChar(s[k])]

\* s[:n]
Take(s, n) == SubSeq(s, 1, IF Len(s) < n THEN Len(s) ELSE n)
\* s[n:]
Drop(s, n) == SubSeq(s, n + 1, Len(s))

StartsWith(s, p) == Len(p) <= Len(s) /\ SubSeq(s, 1, Len(p)) = p

\* str.find(sub): index (from 0) of the first occurrence, scanning left to right; -1 if none
RECURSIVE FindFrom(_, _, _)
FindFrom(s, sub, k) ==
    IF k + Len(sub) > Len(s) THEN -1
    ELSE IF SubSeq(s, k + 1, k + Len(sub)) = sub THEN k
    ELSE FindFrom(s, sub, k + 1)
Find(s, sub) == FindFrom(s, sub, 0)

\* sub in s
Contains(s, sub) == Find(s, sub) >= 0

\* s.split(sep)[-1]: the piece after the last separator found scanning left to right
RECURSIVE SplitLast(_, _)
SplitLast(s, sep) ==
    LET k == Find(s, sep) IN
    IF k < 0 THEN s ELSE SplitLast(Drop(s, k + Len(sep)), sep)

\* s.split(sep)[0]: the piece before the first separator
SplitFirst(s, sep) ==
    LET k == Find(s, sep) IN
    IF k < 0 THEN s ELSE Take(s, k)

PlaylistMarker ==
    <<"s","p","o","t","i","f","y",".","c","o","m","/","p","l","a","y","l","i","s","t","/">>
AlbumMarker ==
    <<"s","p","o","t","i","f","y",".","c","o","m","/","a","l","b","u","m","/">>
PlaylistPath ==
    <<"p","l","a","y","l","i","s","t","/">>
AlbumPath ==
    <<"a","l","b","u","m","/">>
NamePlaylistPrefix ==
    <<"S","p","o","t","i","f","y","_","P","l","a","y","l","i","s","t","_">>
NameAlbumPrefix ==
    <<"S","p","o","t","i","f","y","_","A","l","b","u","m","_">>
NameServicePrefix ==
    <<"S","p","o","t","i","f","y","_">>
StrPlaylist ==
    <<"p","l","a","y","l","i","s","t">>
StrAlbum ==
    <<"a","l","b","u","m">>
StrUnknown ==
    <<"u","n","k","n","o","w","n">>
IdLen == 8

(***************************************************************************)
(* URL classifier                                                          *)
(***************************************************************************)
\* is_valid_spotify_url
is_valid_spotify_url(u) ==
    LET url_lower == Lower(u) IN
    Contains(url_lower, PlaylistMarker) \/ Contains(url_lower, AlbumMarker)

\* get_url_type with the album marker tested first
get_url_type_album_first(u) ==
    LET url_lower == Lower(u) IN
    IF Contains(url_lower, AlbumMarker) THEN StrAlbum
    ELSE IF Contains(url_lower, PlaylistMarker) THEN StrPlaylist
    ELSE StrUnknown

\* get_url_type
get_url_type(u) ==
    LET url_lower == Lower(u) IN
    IF Contains(url_lower, PlaylistMarker) THEN StrPlaylist
    ELSE IF Contains(url_lower, AlbumMarker) THEN StrAlbum
    ELSE StrUnknown

\* extract_collection_name
extract_collection_name(u) ==
    LET ut == get_url_type(u) IN
    IF Contains(u, PlaylistPath)
    THEN NamePlaylistPrefix \o Take(SplitFirst(SplitLast(u, PlaylistPath), <<"?">>), IdLen)
    ELSE IF Contains(u, AlbumPath)
    THEN NameAlbumPrefix \o Take(SplitFirst(SplitLast(u, AlbumPath), <<"?">>), IdLen)
    ELSE NameServicePrefix \o Title(ut)

(***************************************************************************)
(* URL inputs: concatenations of at most MaxSegs segments                  *)
(***************************************************************************)
SegScheme ==
    <<"h","t","t","p","s",":","/","/","o","p","e","n",".">>
SegHost ==
    <<"s","p","o","t","i","f","y",".","c","o","m","/">>
SegHostCap ==
    <<"S","p","o","t","i","f","y",".","C","O","M","/">>
SegPlaylistCap ==
    <<"P","l","a","y","l","i","s","t","/">>
SegId ==
    <<"a","b","c","1","2","3","4","5">>
SegQuery ==
    <<"?","s","i","=","x","y","z">>

Segments ==
    {SegScheme, SegHost, SegHostCap, PlaylistPath, AlbumPath, SegPlaylistCap, SegId, SegQuery}

RECURSIVE Concats(_)
Concats(n) ==
    IF n = 0 THEN {<<>>}
    ELSE LET shorter == Concats(n - 1) IN
         shorter \cup {u \o s : u \in shorter, s \in Segments}

UrlInputs == Concats(MaxSegs)

(***************************************************************************)
(* JSON values and the value accessors                                     *)
(***************************************************************************)
JStr(s) == [tag |-> "str", v |-> s]
JNum(n) == [tag |-> "num", v |-> n]
JList(l) == [tag |-> "list", v |-> l]
JDict(d) == [tag |-> "dict", v |-> d]
None == [tag |-> "null", v |-> 0]

StrUnknownCap ==
    <<"U","n","k","n","o","w","n">>
StrTrackPrefix ==
    <<"T","r","a","c","k","_">>
StrNone ==
    <<"N","o","n","e">>
StrSep ==
    <<","," ">>
StrDash ==
    <<" ","-"," ">>
StrUnknownFile ==
    <<"u","n","k","n","o","w","n","_","f","i","l","e">>
StrInfoSuffix ==
    <<"_","i","n","f","o",".","j","s","o","n">>
StrMp3 ==
    <<".","m","p","3">>
DigitChars ==
    <<"0","1","2","3","4","5","6","7","8","9">>

\* bool(x)
Truthy(x) ==
    CASE x.tag = "dict" -> DOMAIN x.v # {}
      [] x.tag = "list" -> Len(x.v) > 0
      [] x.tag = "str" -> Len(x.v) > 0
      [] x.tag = "num" -> x.v # 0
      [] x.tag = "null" -> FALSE

\* str(n) of a natural number
RECURSIVE NatStr(_)
NatStr(n) ==
    IF n < 10 THEN <<DigitChars[n + 1]>>
    ELSE NatStr(n \div 10) \o <<DigitChars[(n % 10) + 1]>>

\* str(x) and repr(x) of a string, a number, None or a list of them
RECURSIVE PyStr(_), PyRepr(_), JoinReprs(_)
PyStr(x) ==
    CASE x.tag = "str" -> x.v
      [] x.tag = "num" -> NatStr(x.v)
      [] x.tag = "null" -> StrNone
      [] x.tag = "list" -> <<"[">> \o JoinReprs(x.v) \o <<"]">>
PyRepr(x) ==
    IF x.tag = "str" THEN <<"'">> \o x.v \o <<"'">> ELSE PyStr(x)
JoinReprs(l) ==
    IF Len(l) = 0 THEN <<>>
    ELSE IF Len(l) = 1 THEN PyRepr(l[1])
    ELSE PyRepr(l[1]) \o StrSep \o JoinReprs(Tail(l))

\* get_value: JSON data has mapping-like records only; no other JSON value has
\* an attribute called name, artists, url, songs or webpage_url
get_value(obj, key, default) ==
    IF obj.tag = "dict"
    THEN IF key \in DOMAIN obj.v THEN obj.v[key] ELSE default
    ELSE default

\* separator.join(str(item) for item in obj if item)
RECURSIVE JoinTruthy(_, _)
JoinTruthy(l, separator) ==
    IF Len(l) = 0 THEN <<>>
    ELSE IF ~Truthy(l[1]) THEN JoinTruthy(Tail(l), separator)
    ELSE LET rest == SelectSeq(Tail(l), Truthy) IN
         IF Len(rest) = 0 THEN PyStr(l[1])
         ELSE PyStr(l[1]) \o separator \o JoinTruthy(rest, separator)

\* format_list_as_string
format_list_as_string(obj) ==
    IF obj.tag = "list" THEN JoinTruthy(obj.v, StrSep)
    ELSE IF obj.tag = "str" THEN obj.v
    ELSE IF Truthy(obj) THEN PyStr(obj) ELSE StrUnknownCap

(***************************************************************************)
(* clean_filename                                                          *)
(***************************************************************************)
ReservedChars == {"<", ">", ":", "\"", "/", "\\", "|", "?", "*"}
SpaceChars == {" ", "\t", "\n"}
WordChars == Range(UpperChars) \cup Range(LowerChars) \cup Digits \cup {"_"}
MaxNameLen == 200

\* re.sub(r'[<>:"/\\|?*]', '_', s)
SubReserved(s) == [k \in DOMAIN s |-> IF s[k] \in ReservedChars THEN "_" ELSE s[k]]
\* re.sub(r'[^\w\s\-_\.]', '_', s)
SubNonWord(s) ==
    [k \in DOMAIN s |->
        IF s[k] \in WordChars \cup SpaceChars \cup {"-", "_", "."} THEN s[k] ELSE "_"]

\* str.strip()
RECURSIVE LStrip(_), RStrip(_)
LStrip(s) == IF Len(s) > 0 /\ s[1] \in SpaceChars THEN LStrip(Tail(s)) ELSE s
RStrip(s) ==
    IF Len(s) > 0 /\ s[Len(s)] \in SpaceChars THEN RStrip(SubSeq(s, 1, Len(s) - 1)) ELSE s
Strip(s) == RStrip(LStrip(s))

\* clean_filename of a JSON value or string (str() is applied first)
clean_filename(s) == Take(Strip(SubNonWord(SubReserved(s))), MaxNameLen)

(***************************************************************************)
(* extract_track_details                                                   *)
(***************************************************************************)
\* the three locals after the shape analysis of lines 166-183
\* variant: only a record is read, a sequence is never looked into
TrackFieldsRecordOnly(track) ==
    IF track.tag = "dict"
    THEN [title |-> get_value(track, "name", JStr(StrUnknownCap)),
          artists |-> get_value(track, "artists", JList(<<>>)),
          spotify_url |-> get_value(track, "url", JStr(<<>>))]
    ELSE [title |-> JStr(StrUnknownCap), artists |-> JList(<<>>), spotify_url |-> JStr(<<>>)]

TrackFields(track) ==
    LET dflt == [title |-> JStr(StrUnknownCap), artists |-> JList(<<>>), spotify_url |-> JStr(<<>>)]
        read(d) == [title |-> get_value(d, "name", JStr(StrUnknownCap)),
                    artists |-> get_value(d, "artists", JList(<<>>)),
                    spotify_url |-> get_value(d, "url", JStr(<<>>))]
    IN  IF track.tag = "dict" THEN read(track)
        ELSE IF track.tag = "list" /\ Len(track.v) > 0
        THEN IF track.v[1].tag = "dict" THEN read(track.v[1])
             ELSE [dflt EXCEPT !.title = JStr(format_list_as_string(track))]
        ELSE dflt

\* extract_track_details; oid is id(track), the identity of the track object
extract_track_details(track, oid) ==
    LET f == TrackFields(track)
        title == IF ~Truthy(f.title) \/ f.title = JStr(StrUnknownCap)
                 THEN JStr(StrTrackPrefix \o NatStr(oid)) ELSE f.title
    IN  [title |-> title,
         artist_str |-> format_list_as_string(f.artists),
         spotify_url |-> f.spotify_url]

\* clean_filename(f"{artist_str} - {title}")
TrackFilename(d) == clean_filename(d.artist_str \o StrDash \o PyStr(d.title))

\* folder.glob(f"{filename}.*"): the names of dir that match; filename holds no
\* glob metacharacter after clean_filename, so the pattern is a literal prefix
\* followed by "." and "*"
GlobMatch(name, filename) == StartsWith(name, filename \o <<".">>)
existing_files(fs, dir, filename) ==
    {f \in fs : f[1] = dir /\ GlobMatch(f[2], filename)}

(***************************************************************************)
(* Inputs of the download model                                            *)
(***************************************************************************)
UrlPlaylist == SegScheme \o SegHost \o PlaylistPath \o SegId \o SegQuery
UrlAlbum == SegScheme \o SegHost \o AlbumPath \o SegId
UrlPlaylistCap == SegScheme \o SegHost \o SegPlaylistCap \o SegId
UrlAlbumRef == SegScheme \o SegHost \o AlbumPath \o SegId \o SegQuery \o PlaylistPath
Urls == {UrlPlaylist, UrlAlbum, UrlPlaylistCap, UrlAlbumRef}

TrackA ==
    JDict([k \in {"name", "artists", "url"} |->
            CASE k = "name" -> JStr(<<"S">>)
              [] k = "artists" -> JList(<<JStr(<<"A">>)>>)
              [] k = "url" -> JStr(<<"u">>)])
TrackNoUrl ==
    JDict([k \in {"name", "artists"} |->
            CASE k = "name" -> JStr(<<"S">>)
              [] k = "artists" -> JList(<<JStr(<<"A">>)>>)])
TrackB ==
    JDict([k \in {"name", "artists", "url"} |->
            CASE k = "name" -> JStr(<<"T">>)
              [] k = "artists" -> JList(<<JStr(<<"A">>), JStr(<<"B">>)>>)
              [] k = "url" -> JStr(<<"v">>)])
TrackValues == {TrackA, TrackNoUrl, TrackB}
\* another track of the same artist whose title extends TrackA's after a dot
TrackDotted ==
    JDict([k \in {"name", "artists", "url"} |->
            CASE k = "name" -> JStr(<<"S", ".", "x">>)
              [] k = "artists" -> JList(<<JStr(<<"A">>)>>)
              [] k = "url" -> JStr(<<"w">>)])

RECURSIVE SeqsUpTo(_, _)
SeqsUpTo(S, n) ==
    IF n = 0 THEN {<<>>}
    ELSE LET shorter == SeqsUpTo(S, n - 1) IN
         shorter \cup {Append(l, x) : l \in shorter, x \in S}
TrackLists == SeqsUpTo(TrackValues, MaxTracks) \cup {<<TrackDotted, TrackA>>}

CollName == <<"M","i","x">>
DictWith(tl) ==
    JDict([k \in {"name", "songs"} |->
            CASE k = "name" -> JStr(CollName) [] k = "songs" -> JList(tl)])
DictNoName == JDict([k \in {"songs"} |-> JList(<<TrackA>>)])
DictNoSongs == JDict([k \in {"name"} |-> JStr(CollName)])
DictEmpty == JDict([k \in {} |-> None])
\* a collection whose name is a single space
DictBlankName ==
    JDict([k \in {"name", "songs"} |->
            CASE k = "name" -> JStr(<<" ">>) [] k = "songs" -> JList(<<TrackA>>)])

\* what the temp file can hold when spotdl save exited zero: text that is not
\* JSON, or a JSON document
Unparsable == [tag |-> "garbage", v |-> 0]
FileContents ==
    {Unparsable, JNum(7), None, DictNoName, DictNoSongs, DictEmpty, DictBlankName}
        \cup {JList(tl) : tl \in TrackLists}
        \cup {DictWith(tl) : tl \in TrackLists}

ObjIds == {140}
VideoUrl == JStr(<<"y">>)
NoCur == [title |-> None, artist_str |-> <<>>, spotify_url |-> None, filename |-> <<>>]

Call(tool, track, flags, ok) == [tool |-> tool, track |-> track, flags |-> flags, ok |-> ok]

(***************************************************************************)
(* fetch_playlist_data                                                     *)
(***************************************************************************)
urlVars == <<valid>>
sanVars == <<san_in, san_out, san_twice>>
trackVars == <<track_in, track_out>>
rerunVars == <<run, prev_run>>
menuVars == <<user_input, prompts, dl_outcome>>
sideVars == <<urlVars, sanVars, trackVars, rerunVars, menuVars>>
fetchVars == <<temp_file, save_exit, file_content, metadata>>
metaVars == <<collection_name, tracks, folder>>
fsVars == <<dirs, files>>
countVars == <<i, success_count, failed_count>>
iterVars == <<cur, success, youtube_url>>

\* FetchResult without the test for a list: every root that is not a record is wrapped
FetchResultWrapAny(data, u, ut) ==
    IF data.tag = "dict" THEN data
    ELSE JDict([k \in {"name", "songs", "url", "type"} |->
                 CASE k = "name" -> JStr(extract_collection_name(u))
                   [] k = "songs" -> IF data.tag = "list" THEN data ELSE JList(<<data>>)
                   [] k = "url" -> JStr(u)
                   [] k = "type" -> JStr(ut)])

\* lines 126-142: the record returned for parsed data
FetchResult(data, u, ut) ==
    IF data.tag = "dict" THEN data
    ELSE IF data.tag = "list"
    THEN JDict([k \in {"name", "songs", "url", "type"} |->
                 CASE k = "name" -> JStr(extract_collection_name(u))
                   [] k = "songs" -> data
                   [] k = "url" -> JStr(u)
                   [] k = "type" -> JStr(ut)])
    ELSE None

\* download_collection is called: lines 273-280 and 110-112
StartRun ==
    /\ pc = "idle"
    /\ \E u \in Urls :
        /\ url' = u
        /\ url_type' = get_url_type(u)
    /\ pc' = "fetch_temp"
    /\ temp_file' = "none"
    /\ save_exit' = "none"
    /\ file_content' = None
    /\ metadata' = None
    /\ collection_name' = None
    /\ tracks' = None
    /\ folder' = <<>>
    /\ i' = 0
    /\ success_count' = 0
    /\ failed_count' = 0
    /\ cur' = NoCur
    /\ success' = FALSE
    /\ youtube_url' = None
    /\ calls' = <<>>
    /\ processed' = <<>>
    /\ outcomes' = <<>>
    /\ result' = "none"
    /\ UNCHANGED <<sideVars, fsVars>>

\* lines 114-115: the temp file is created and closed
FetchCreateTemp ==
    /\ pc = "fetch_temp"
    /\ temp_file' = "exists"
    /\ pc' = "fetch_save"
    /\ UNCHANGED <<url, url_type, sideVars, save_exit, file_content, metadata, metaVars,
                   fsVars, countVars, iterVars, calls, processed, outcomes, result>>

\* lines 117-118 and 144-146: spotdl save runs; check=True raises on a nonzero
\* exit, subprocess.run raises when the tool cannot be spawned
FetchSave ==
    /\ pc = "fetch_save"
    /\ \E ex \in {"zero", "nonzero", "spawn_error"} :
        /\ save_exit' = ex
        /\ calls' = Append(calls, Call("spotdl_save", 0, "none", ex = "zero"))
        /\ IF ex = "zero"
           THEN /\ \E c \in FileContents : file_content' = c
                /\ pc' = "fetch_parse"
                /\ UNCHANGED metadata
           ELSE /\ metadata' = None
                /\ pc' = "check_metadata"
                /\ UNCHANGED file_content
    /\ UNCHANGED <<url, url_type, sideVars, temp_file, metaVars, fsVars, countVars,
                   iterVars, processed, outcomes, result>>

\* lines 120-146: json.load, os.unlink, reshaping; json.load raising skips the unlink
FetchParse ==
    /\ pc = "fetch_parse"
    /\ IF file_content = Unparsable
       THEN /\ metadata' = None
            /\ UNCHANGED temp_file
       ELSE /\ temp_file' = "deleted"
            /\ metadata' = FetchResult(file_content, url, url_type)
    /\ pc' = "check_metadata"
    /\ UNCHANGED <<url, url_type, sideVars, save_exit, file_content, metaVars, fsVars,
                   countVars, iterVars, calls, processed, outcomes, result>>

(***************************************************************************)
(* download_collection, up to the loop                                     *)
(***************************************************************************)
StrUnknownSpace ==
    <<"U","n","k","n","o","w","n"," ">>

\* lines 281-287
CheckMetadata ==
    /\ pc = "check_metadata"
    /\ IF ~Truthy(metadata)
       THEN /\ result' = FALSE
            /\ pc' = "done"
            /\ UNCHANGED <<collection_name, tracks>>
       ELSE /\ collection_name' =
                    get_value(metadata, "name", JStr(StrUnknownSpace \o Title(url_type)))
            /\ tracks' = get_value(metadata, "songs", JList(<<>>))
            /\ pc' = "check_tracks"
            /\ UNCHANGED result
    /\ UNCHANGED <<url, url_type, sideVars, fetchVars, folder, fsVars, countVars,
                   iterVars, calls, processed, outcomes>>

\* CheckTracks returning success for a collection without tracks
CheckTracksEmptyOk ==
    /\ pc = "check_tracks"
    /\ IF ~Truthy(tracks)
       THEN /\ result' = TRUE
            /\ pc' = "done"
       ELSE /\ pc' = "mkdir"
            /\ UNCHANGED result
    /\ UNCHANGED <<url, url_type, sideVars, fetchVars, metaVars, fsVars, countVars,
                   iterVars, calls, processed, outcomes>>

\* lines 289-294
CheckTracks ==
    /\ pc = "check_tracks"
    /\ IF ~Truthy(tracks)
       THEN /\ result' = FALSE
            /\ pc' = "done"
       ELSE /\ pc' = "mkdir"
            /\ UNCHANGED result
    /\ UNCHANGED <<url, url_type, sideVars, fetchVars, metaVars, fsVars, countVars,
                   iterVars, calls, processed, outcomes>>

\* lines 296-298 and 362-364: mkdir(exist_ok=True) creates or reuses the folder;
\* an OSError from it is caught by the outer handler
MakeFolder ==
    /\ pc = "mkdir"
    /\ folder' = clean_filename(PyStr(collection_name))
    /\ \E ok \in BOOLEAN :
        IF ok
        THEN /\ pc' = "save_metadata"
             /\ dirs' = dirs \cup {folder'}
             /\ UNCHANGED result
        ELSE /\ pc' = "done"
             /\ result' = FALSE
             /\ UNCHANGED dirs
    /\ UNCHANGED <<url, url_type, sideVars, fetchVars, collection_name, tracks, files,
                   countVars, iterVars, calls, processed, outcomes>>

\* SaveMetadata with a fatal failure: the run returns False when no sidecar was created
SaveMetadataFatal ==
    /\ pc = "save_metadata"
    /\ \E created \in BOOLEAN :
        /\ files' = IF created THEN files \cup {<<folder, url_type \o StrInfoSuffix>>} ELSE files
        /\ IF created
           THEN /\ i' = 1
                /\ pc' = "loop"
                /\ UNCHANGED result
           ELSE /\ result' = FALSE
                /\ pc' = "done"
                /\ UNCHANGED i
    /\ success_count' = 0
    /\ failed_count' = 0
    /\ UNCHANGED <<url, url_type, sideVars, fetchVars, metaVars, dirs, iterVars, calls,
                   processed, outcomes>>

\* lines 300-309: the sidecar write may fail before or after the file is created
SaveMetadata ==
    /\ pc = "save_metadata"
    /\ \E created \in BOOLEAN :
        files' = IF created THEN files \cup {<<folder, url_type \o StrInfoSuffix>>} ELSE files
    /\ success_count' = 0
    /\ failed_count' = 0
    /\ i' = 1
    /\ pc' = "loop"
    /\ UNCHANGED <<url, url_type, sideVars, fetchVars, metaVars, dirs, iterVars, calls,
                   processed, outcomes, result>>

(***************************************************************************)
(* download_collection, the track loop                                     *)
(***************************************************************************)
\* TrackRaise without the handler inside the loop: the exception reaches the outer handler
TrackRaiseAborts ==
    /\ result' = FALSE
    /\ pc' = "done"
    /\ outcomes' = Append(outcomes, "raised")
    /\ UNCHANGED <<countVars, iterVars, calls>>

\* lines 351-354: an exception raised while the track is processed (the progress
\* print of line 318 or the directory listing of line 324 failing) is caught
\* inside the loop
TrackRaise ==
    /\ failed_count' = failed_count + 1
    /\ i' = i + 1
    /\ pc' = "loop"
    /\ outcomes' = Append(outcomes, "raised")
    /\ UNCHANGED <<success_count, iterVars, calls, result>>

\* TrackSkip without the continue: the track is counted and then downloaded
TrackSkipFallsThrough(d, filename) ==
    /\ success_count' = success_count + 1
    /\ outcomes' = Append(outcomes, "skipped")
    /\ cur' = [title |-> d.title, artist_str |-> d.artist_str,
               spotify_url |-> d.spotify_url, filename |-> filename]
    /\ success' = FALSE
    /\ youtube_url' = None
    /\ pc' = IF Truthy(d.spotify_url) THEN "primary" ELSE "search"
    /\ UNCHANGED <<i, failed_count, calls, result>>

\* lines 325-328: a file matching the pattern exists
TrackSkip(d, filename) ==
    /\ success_count' = success_count + 1
    /\ i' = i + 1
    /\ pc' = "loop"
    /\ outcomes' = Append(outcomes, "skipped")
    /\ UNCHANGED <<failed_count, iterVars, calls, result>>

\* lines 330-336: no file exists; the primary download needs a source reference
TrackDownload(d, filename) ==
    /\ cur' = [title |-> d.title, artist_str |-> d.artist_str,
               spotify_url |-> d.spotify_url, filename |-> filename]
    /\ success' = FALSE
    /\ youtube_url' = None
    /\ pc' = IF Truthy(d.spotify_url) THEN "primary" ELSE "search"
    /\ UNCHANGED <<countVars, calls, outcomes, result>>

\* lines 312-336: one iteration up to the first tool invocation
LoopBody ==
    /\ pc = "loop"
    /\ i <= Len(tracks.v)
    /\ processed' = Append(processed, i)
    /\ \E oid \in ObjIds :
        LET d == extract_track_details(tracks.v[i], oid)
            filename == TrackFilename(d)
        IN  \/ TrackRaise
            \/ /\ existing_files(files, folder, filename) # {}
               /\ TrackSkip(d, filename)
            \/ /\ existing_files(files, folder, filename) = {}
               /\ TrackDownload(d, filename)
    /\ UNCHANGED <<url, url_type, sideVars, fetchVars, metaVars, fsVars>>

\* the files spotdl download can leave in the folder when it exits zero: none,
\* the track under the name the loop looks for, or under spotdl's own name
PrimaryOutputs ==
    {{}, {cur.filename \o StrMp3},
     {cur.artist_str \o StrDash \o PyStr(cur.title) \o StrMp3}}

\* AfterPrimary without the test of success
AfterPrimaryAlways(ok) == "search"

\* line 339: the fallback is entered when success is false
AfterPrimary(ok) == IF ok THEN "tally" ELSE "search"

\* Primary1 without the second attempt
Primary1NoRetry ==
    /\ pc = "primary"
    /\ \E ok \in BOOLEAN :
        /\ calls' = Append(calls, Call("spotdl_download", i, "full", ok))
        /\ IF ok
           THEN /\ \E out \in PrimaryOutputs :
                     files' = files \cup {<<folder, f>> : f \in out}
                /\ success' = TRUE
           ELSE UNCHANGED <<files, success>>
        /\ pc' = AfterPrimary(ok)
    /\ UNCHANGED <<url, url_type, sideVars, fetchVars, metaVars, dirs, countVars, cur,
                   youtube_url, processed, outcomes, result>>

\* lines 224-241: spotdl download with the full flag set
Primary1 ==
    /\ pc = "primary"
    /\ \E ok \in BOOLEAN :
        /\ calls' = Append(calls, Call("spotdl_download", i, "full", ok))
        /\ IF ok
           THEN /\ \E out \in PrimaryOutputs :
                     files' = files \cup {<<folder, f>> : f \in out}
                /\ success' = TRUE
                /\ pc' = AfterPrimary(TRUE)
           ELSE /\ pc' = "primary_retry"
                /\ UNCHANGED <<files, success>>
    /\ UNCHANGED <<url, url_type, sideVars, fetchVars, metaVars, dirs, countVars, cur,
                   youtube_url, processed, outcomes, result>>

\* lines 242-253: spotdl download with the reduced flag set
Primary2 ==
    /\ pc = "primary_retry"
    /\ \E ok \in BOOLEAN :
        /\ calls' = Append(calls, Call("spotdl_download", i, "reduced", ok))
        /\ IF ok
           THEN \E out \in PrimaryOutputs :
                     files' = files \cup {<<folder, f>> : f \in out}
           ELSE UNCHANGED files
        /\ success' = ok
        /\ pc' = AfterPrimary(ok)
    /\ UNCHANGED <<url, url_type, sideVars, fetchVars, metaVars, dirs, countVars, cur,
                   youtube_url, processed, outcomes, result>>

\* lines 340-341 and 255-271: the search yields the first result's URL or None
Search ==
    /\ pc = "search"
    /\ \E found \in {None, VideoUrl} :
        /\ youtube_url' = found
        /\ calls' = Append(calls, Call("ytdlp_search", i, "none", Truthy(found)))
        /\ pc' = IF Truthy(found) THEN "secondary" ELSE "tally"
    /\ UNCHANGED <<url, url_type, sideVars, fetchVars, metaVars, fsVars, countVars, cur,
                   success, processed, outcomes, result>>

\* Secondary with one more attempt after a first failure
SecondaryRetry ==
    /\ pc = "secondary"
    /\ \E ok \in BOOLEAN :
        LET Earlier(c) == c.tool = "ytdlp_download" /\ c.track = i IN
        /\ calls' = Append(calls, Call("ytdlp_download", i, "none", ok))
        /\ files' = IF ok THEN files \cup {<<folder, cur.filename \o StrMp3>>} ELSE files
        /\ success' = ok
        /\ pc' = IF ~ok /\ Len(SelectSeq(calls, Earlier)) = 0 THEN "secondary" ELSE "tally"
    /\ UNCHANGED <<url, url_type, sideVars, fetchVars, metaVars, dirs, countVars, cur,
                   youtube_url, processed, outcomes, result>>

\* lines 342 and 196-220: yt-dlp writes to the template <filename>.%(ext)s
Secondary ==
    /\ pc = "secondary"
    /\ \E ok \in BOOLEAN :
        /\ calls' = Append(calls, Call("ytdlp_download", i, "none", ok))
        /\ files' = IF ok THEN files \cup {<<folder, cur.filename \o StrMp3>>} ELSE files
        /\ success' = ok
    /\ pc' = "tally"
    /\ UNCHANGED <<url, url_type, sideVars, fetchVars, metaVars, dirs, countVars, cur,
                   youtube_url, processed, outcomes, result>>

\* Tally without the else branch: a failed track is counted nowhere
TallyFailedUncounted ==
    /\ pc = "tally"
    /\ IF success
       THEN /\ success_count' = success_count + 1
            /\ UNCHANGED failed_count
       ELSE UNCHANGED <<success_count, failed_count>>
    /\ outcomes' = Append(outcomes, IF success THEN "downloaded" ELSE "failed")
    /\ i' = i + 1
    /\ cur' = NoCur
    /\ success' = FALSE
    /\ youtube_url' = None
    /\ pc' = "loop"
    /\ UNCHANGED <<url, url_type, sideVars, fetchVars, metaVars, fsVars, calls,
                   processed, result>>

\* lines 344-349; the locals of the iteration are dead after it and are cleared
Tally ==
    /\ pc = "tally"
    /\ IF success
       THEN /\ success_count' = success_count + 1
            /\ UNCHANGED failed_count
       ELSE /\ failed_count' = failed_count + 1
            /\ UNCHANGED success_count
    /\ outcomes' = Append(outcomes, IF success THEN "downloaded" ELSE "failed")
    /\ i' = i + 1
    /\ cur' = NoCur
    /\ success' = FALSE
    /\ youtube_url' = None
    /\ pc' = "loop"
    /\ UNCHANGED <<url, url_type, sideVars, fetchVars, metaVars, fsVars, calls,
                   processed, result>>

\* Finish reporting success when no track failed
FinishNoFailure ==
    /\ pc = "loop"
    /\ i > Len(tracks.v)
    /\ result' = (failed_count = 0)
    /\ pc' = "done"
    /\ UNCHANGED <<url, url_type, sideVars, fetchVars, metaVars, fsVars, countVars,
                   iterVars, calls, processed, outcomes>>

\* lines 356-360
Finish ==
    /\ pc = "loop"
    /\ i > Len(tracks.v)
    /\ result' = (success_count > 0)
    /\ pc' = "done"
    /\ UNCHANGED <<url, url_type, sideVars, fetchVars, metaVars, fsVars, countVars,
                   iterVars, calls, processed, outcomes>>

(***************************************************************************)
(* Specification of the download runs                                      *)
(***************************************************************************)
NoTrackOut == [title |-> None, artist_str |-> <<>>, spotify_url |-> None]

\* the variables of the other specifications, at rest
SideIdle ==
    /\ san_in = <<>>
    /\ san_out = <<>>
    /\ san_twice = <<>>
    /\ track_in = None
    /\ track_out = NoTrackOut
    /\ run = 1
    /\ prev_run = <<>>
    /\ user_input = <<>>
    /\ prompts = 0
    /\ dl_outcome = "none"

Init ==
    /\ pc = "idle"
    /\ url = <<>>
    /\ url_type = StrUnknown
    /\ valid = FALSE
    /\ temp_file = "none"
    /\ save_exit = "none"
    /\ file_content = None
    /\ metadata = None
    /\ collection_name = None
    /\ tracks = None
    /\ folder = <<>>
    /\ dirs = {}
    /\ files = {}
    /\ i = 0
    /\ success_count = 0
    /\ failed_count = 0
    /\ cur = NoCur
    /\ success = FALSE
    /\ youtube_url = None
    /\ calls = <<>>
    /\ processed = <<>>
    /\ outcomes = <<>>
    /\ result = "none"
    /\ SideIdle

Next ==
    \/ StartRun
    \/ FetchCreateTemp
    \/ FetchSave
    \/ FetchParse
    \/ CheckMetadata
    \/ CheckTracks
    \/ MakeFolder
    \/ SaveMetadata
    \/ LoopBody
    \/ Primary1
    \/ Primary2
    \/ Search
    \/ Secondary
    \/ Tally
    \/ Finish

Spec == Init /\ [][Next]_vars

\* the interpreter keeps executing the call: a step that can be taken is taken.
\* Every step moves pc or enters the loop body for the next track.
progressVars == <<pc, processed>>
SpecLive == Init /\ [][Next]_vars /\ WF_progressVars(Next)

(***************************************************************************)
(* Specification of the URL functions alone                                *)
(***************************************************************************)
\* lines 391 and 395: a URL is validated and classified
UrlCheck ==
    /\ pc = "url_input"
    /\ valid' = is_valid_spotify_url(url)
    /\ url_type' = get_url_type(url)
    /\ pc' = "url_checked"
    /\ UNCHANGED <<url, fetchVars, metaVars, fsVars, countVars, iterVars, calls,
                   processed, outcomes, result, sanVars, trackVars, rerunVars, menuVars>>

InitUrl ==
    /\ pc = "url_input"
    /\ url \in UrlInputs
    /\ url_type = StrUnknown
    /\ valid = FALSE
    /\ temp_file = "none"
    /\ save_exit = "none"
    /\ file_content = None
    /\ metadata = None
    /\ collection_name = None
    /\ tracks = None
    /\ folder = <<>>
    /\ dirs = {}
    /\ files = {}
    /\ i = 0
    /\ success_count = 0
    /\ failed_count = 0
    /\ cur = NoCur
    /\ success = FALSE
    /\ youtube_url = None
    /\ calls = <<>>
    /\ processed = <<>>
    /\ outcomes = <<>>
    /\ result = "none"
    /\ SideIdle

NextUrl == UrlCheck

SpecUrl == InitUrl /\ [][NextUrl]_vars

(***************************************************************************)
(* Specification of clean_filename alone                                   *)
(***************************************************************************)
MaxTail == 3

\* the variables of one download run, at rest
RunIdle ==
    /\ url = <<>>
    /\ url_type = StrUnknown
    /\ valid = FALSE
    /\ temp_file = "none"
    /\ save_exit = "none"
    /\ file_content = None
    /\ metadata = None
    /\ collection_name = None
    /\ tracks = None
    /\ folder = <<>>
    /\ dirs = {}
    /\ files = {}
    /\ i = 0
    /\ success_count = 0
    /\ failed_count = 0
    /\ cur = NoCur
    /\ success = FALSE
    /\ youtube_url = None
    /\ calls = <<>>
    /\ processed = <<>>
    /\ outcomes = <<>>
    /\ result = "none"

\* names: nothing or a run of letters two short of the cap, followed by up to
\* MaxTail characters that are a letter, a space or a reserved character
SanTailChars == {"a", " ", "/"}
SanPad(n) == [k \in 1..n |-> "a"]
SanPads == {SanPad(0), SanPad(MaxNameLen - 2)}
SanTails == UNION {[1..n -> SanTailChars] : n \in 0..MaxTail}
SanInputs == {p \o t : p \in SanPads, t \in SanTails}

\* lines 77-84: clean_filename is applied to a name
SanOnce ==
    /\ pc = "san_input"
    /\ san_out' = clean_filename(san_in)
    /\ pc' = "san_once"
    /\ UNCHANGED <<url, url_type, urlVars, fetchVars, metaVars, fsVars, countVars,
                   iterVars, calls, processed, outcomes, result, san_in, san_twice,
                   trackVars, rerunVars, menuVars>>

\* lines 77-84: clean_filename is applied to its own result
SanTwice ==
    /\ pc = "san_once"
    /\ san_twice' = clean_filename(san_out)
    /\ pc' = "san_twice"
    /\ UNCHANGED <<url, url_type, urlVars, fetchVars, metaVars, fsVars, countVars,
                   iterVars, calls, processed, outcomes, result, san_in, san_out,
                   trackVars, rerunVars, menuVars>>

InitSan ==
    /\ pc = "san_input"
    /\ RunIdle
    /\ san_in \in SanInputs
    /\ san_out = <<>>
    /\ san_twice = <<>>
    /\ track_in = None
    /\ track_out = NoTrackOut
    /\ run = 1
    /\ prev_run = <<>>
    /\ user_input = <<>>
    /\ prompts = 0
    /\ dl_outcome = "none"

NextSan ==
    \/ SanOnce
    \/ SanTwice

SpecSan == InitSan /\ [][NextSan]_vars

(***************************************************************************)
(* Specification of extract_track_details alone                            *)
(***************************************************************************)
MaxArtists == 2

StrSong ==
    <<"S","o","n","g">>
StrTrackRef ==
    <<"s","p","o","t","i","f","y",":","t","r","a","c","k",":","1">>
StrAbc ==
    <<"a","b","c">>

\* track records: a name that is a title, empty or the literal "Unknown"; up to
\* MaxArtists artists that are a name, empty or null, or one artist string
ArtistItems == {JStr(<<"A">>), JStr(<<"B">>), JStr(<<>>), None}
ArtistValues == {JList(l) : l \in SeqsUpTo(ArtistItems, MaxArtists)} \cup {JStr(<<"A">>)}
TrackNames == {JStr(StrSong), JStr(<<>>), JStr(StrUnknownCap)}
TrackRecordWith(n, a) ==
    JDict([k \in {"name", "artists", "url"} |->
            CASE k = "name" -> n [] k = "artists" -> a [] k = "url" -> JStr(StrTrackRef)])
TrackRecords == {TrackRecordWith(n, a) : n \in TrackNames, a \in ArtistValues} \cup {TrackNoUrl}

\* track values that are neither a record nor a sequence starting with one
OtherTracks ==
    {JStr(StrAbc), JStr(<<>>), JNum(7), JNum(0), None, JList(<<>>),
     JList(<<JStr(<<"x">>), JStr(<<"y">>)>>), JList(<<JNum(7)>>), JList(<<None>>)}

TrackInputs ==
    TrackRecords \cup {JList(<<r>>) : r \in TrackRecords}
        \cup {JList(<<r, JStr(<<"x">>)>>) : r \in {TrackA, TrackB}} \cup OtherTracks

\* lines 163-194: the details of one track value are extracted
Extract ==
    /\ pc = "track_input"
    /\ \E oid \in ObjIds : track_out' = extract_track_details(track_in, oid)
    /\ pc' = "track_done"
    /\ UNCHANGED <<url, url_type, urlVars, fetchVars, metaVars, fsVars, countVars,
                   iterVars, calls, processed, outcomes, result, sanVars, track_in,
                   rerunVars, menuVars>>

InitTrack ==
    /\ pc = "track_input"
    /\ RunIdle
    /\ san_in = <<>>
    /\ san_out = <<>>
    /\ san_twice = <<>>
    /\ track_in \in TrackInputs
    /\ track_out = NoTrackOut
    /\ run = 1
    /\ prev_run = <<>>
    /\ user_input = <<>>
    /\ prompts = 0
    /\ dl_outcome = "none"

NextTrack == Extract

SpecTrack == InitTrack /\ [][NextTrack]_vars

(***************************************************************************)
(* Specification of a collection that is downloaded twice                  *)
(***************************************************************************)
\* the collections that are downloaded twice: a track with two artists, alone
\* or after a track with one artist, with or without a source reference
RerunTrackLists == {<<TrackB>>, <<TrackA, TrackB>>, <<TrackNoUrl, TrackB>>}

\* lines 273-309 of the second call, for the same output directory and either
\* the same URL or the URL of an album of the same name and tracks: spotdl
\* save returns the collection, the folder exists already, the sidecar is
\* written (or not) and the counters start from zero
Rerun ==
    /\ pc = "done"
    /\ run = 1
    /\ run' = run + 1
    /\ prev_run' = outcomes
    /\ calls' = <<Call("spotdl_save", 0, "none", TRUE)>>
    /\ \E u \in {UrlPlaylist, UrlAlbum} :
        /\ url' = u
        /\ url_type' = get_url_type(u)
    /\ \E created \in BOOLEAN :
        files' = IF created THEN files \cup {<<folder, url_type' \o StrInfoSuffix>>} ELSE files
    /\ i' = 1
    /\ success_count' = 0
    /\ failed_count' = 0
    /\ cur' = NoCur
    /\ success' = FALSE
    /\ youtube_url' = None
    /\ processed' = <<>>
    /\ outcomes' = <<>>
    /\ result' = "none"
    /\ pc' = "loop"
    /\ UNCHANGED <<urlVars, fetchVars, metaVars, dirs, sanVars, trackVars, menuVars>>

\* the first call has reached the loop: lines 273-309 for a playlist URL whose
\* metadata is a record with a name and one of the track lists
InitRerun ==
    /\ pc = "loop"
    /\ url = UrlPlaylist
    /\ url_type = StrPlaylist
    /\ valid = FALSE
    /\ temp_file = "deleted"
    /\ save_exit = "zero"
    /\ \E tl \in RerunTrackLists :
        /\ file_content = DictWith(tl)
        /\ metadata = DictWith(tl)
        /\ tracks = JList(tl)
    /\ collection_name = JStr(CollName)
    /\ folder = CollName
    /\ dirs = {CollName}
    /\ files = {<<CollName, StrPlaylist \o StrInfoSuffix>>}
    /\ i = 1
    /\ success_count = 0
    /\ failed_count = 0
    /\ cur = NoCur
    /\ success = FALSE
    /\ youtube_url = None
    /\ calls = <<Call("spotdl_save", 0, "none", TRUE)>>
    /\ processed = <<>>
    /\ outcomes = <<>>
    /\ result = "none"
    /\ SideIdle

NextRerun ==
    \/ LoopBody
    \/ Primary1
    \/ Primary2
    \/ Search
    \/ Secondary
    \/ Tally
    \/ Finish
    \/ Rerun

SpecRerun == InitRerun /\ [][NextRerun]_vars

(***************************************************************************)
(* Specification of the interactive download sub-flow                      *)
(***************************************************************************)
MaxPrompts == 3

StrDone ==
    <<"d","o","n","e">>
StrDoneCap ==
    <<"D","O","N","E">>
StrQuitPadded ==
    <<" ","q","u","i","t"," ">>
StrExit ==
    <<"e","x","i","t">>
StrQuit ==
    <<"q","u","i","t">>

\* line 388: the words that end the sub-flow
Sentinels == {StrDone, StrExit, StrQuit, <<>>}

\* the lines typed at the prompt: sentinels as they are, in capitals, padded,
\* empty or blank; valid URLs, one of them padded; text that is no valid URL
MenuLines ==
    {StrDone, StrDoneCap, StrQuitPadded, StrExit, <<>>, <<" ">>}
        \cup {UrlPlaylist, <<" ">> \o UrlAlbum \o <<" ">>, UrlPlaylistCap}
        \cup {StrAbc, SegScheme \o SegHost}

\* PromptLine in which the URL is not validated
PromptLineUnchecked(line) ==
    /\ user_input' = Strip(line)
    /\ valid' = is_valid_spotify_url(user_input')
    /\ IF Lower(user_input') \in Sentinels
       THEN /\ pc' = "menu_exit"
            /\ UNCHANGED <<url, url_type>>
       ELSE /\ url_type' = get_url_type(user_input')
            /\ url' = user_input'
            /\ pc' = "downloading"

\* lines 385-396: the line is stripped, compared with the sentinels whatever
\* its case, validated, classified, and the download is started with it
PromptLine(line) ==
    /\ user_input' = Strip(line)
    /\ valid' = is_valid_spotify_url(user_input')
    /\ IF Lower(user_input') \in Sentinels
       THEN /\ pc' = "menu_exit"
            /\ UNCHANGED <<url, url_type>>
       ELSE IF ~is_valid_spotify_url(user_input')
       THEN /\ pc' = "prompt"
            /\ UNCHANGED <<url, url_type>>
       ELSE /\ url_type' = get_url_type(user_input')
            /\ url' = user_input'
            /\ pc' = "downloading"

\* lines 384-396: one pass of the loop up to the call of download_collection
Prompt ==
    /\ pc = "prompt"
    /\ prompts < MaxPrompts
    /\ prompts' = prompts + 1
    /\ \E line \in MenuLines : PromptLine(line)
    /\ UNCHANGED <<fetchVars, metaVars, fsVars, countVars, iterVars, calls, processed,
                   outcomes, result, sanVars, trackVars, rerunVars, dl_outcome>>

\* DownloadReturns in which an exception of the download leaves the sub-flow
DownloadReturnsOrLeaves(outcome) ==
    /\ dl_outcome' = outcome
    /\ pc' = IF outcome = "raised" THEN "menu_exit" ELSE "prompt"

\* lines 398-409: download_collection returns True or False or raises an
\* Exception; each is reported and the loop goes on
DownloadReturns(outcome) ==
    /\ dl_outcome' = outcome
    /\ pc' = "prompt"

Download ==
    /\ pc = "downloading"
    /\ \E outcome \in {"true", "false", "raised"} : DownloadReturns(outcome)
    /\ UNCHANGED <<url, url_type, urlVars, fetchVars, metaVars, fsVars, countVars,
                   iterVars, calls, processed, outcomes, result, sanVars, trackVars,
                   rerunVars, user_input, prompts>>

InitMenu ==
    /\ pc = "prompt"
    /\ RunIdle
    /\ SideIdle

NextMenu ==
    \/ Prompt
    \/ Download

SpecMenu == InitMenu /\ [][NextMenu]_vars

(***************************************************************************)
(* Helpers of the properties                                               *)
(***************************************************************************)
\* position of the last "." of a name, 0 if there is none
LastDot(name) ==
    IF \E k \in DOMAIN name : name[k] = "."
    THEN CHOOSE k \in DOMAIN name :
            name[k] = "." /\ \A m \in DOMAIN name : m > k => name[m] # "."
    ELSE 0

\* dir holds a file <stem>.<extension> whose stem is filename
HasStemFile(fs, dir, filename) ==
    \E f \in fs :
        /\ f[1] = dir
        /\ LastDot(f[2]) > 1
        /\ LastDot(f[2]) < Len(f[2])
        /\ SubSeq(f[2], 1, LastDot(f[2]) - 1) = filename

\* the filename the loop computes for track k
FilenameOf(k) ==
    TrackFilename(extract_track_details(tracks.v[k], CHOOSE oid \in ObjIds : TRUE))

AtTrack == pc = "loop" /\ tracks.tag = "list" /\ i <= Len(tracks.v)

CallsOf(tool, k) ==
    LET Test(c) == c.tool = tool /\ c.track = k IN SelectSeq(calls, Test)
DownloadTools == {"spotdl_download", "ytdlp_search", "ytdlp_download"}
NoDownloadCalls == \A n \in DOMAIN calls : calls[n].tool \notin DownloadTools
Successes == {k \in DOMAIN outcomes : outcomes[k] \in {"skipped", "downloaded"}}
Failures == {k \in DOMAIN outcomes : outcomes[k] \in {"failed", "raised"}}
LoopEntered == i >= 1

\* m occurs in the lowercased u
HasMarker(u, m) ==
    \E k \in 1..Len(u) :
        /\ k + Len(m) - 1 <= Len(u)
        /\ \A n \in 1..Len(m) : LowerChar(u[k + n - 1]) = m[n]

FetchReturned == pc \in {"check_metadata", "check_tracks", "mkdir", "save_metadata",
                         "loop", "primary", "primary_retry", "search", "secondary",
                         "tally", "done"}
FetchFailed ==
    /\ FetchReturned
    /\ \/ save_exit \in {"nonzero", "spawn_error"}
       \/ save_exit = "zero" /\ file_content.tag \notin {"dict", "list"}
EmptyTrackList(c) ==
    \/ c.tag = "list" /\ Len(c.v) = 0
    \/ c.tag = "dict" /\ "songs" \notin DOMAIN c.v
    \/ c.tag = "dict" /\ "songs" \in DOMAIN c.v /\ c.v["songs"] = JList(<<>>)

(***************************************************************************)
(* Properties                                                              *)
(***************************************************************************)
\* C1: when the loop reaches a track and the folder holds a file
\* <filename>.<extension> for the track's sanitized filename, the iteration
\* invokes no tool and changes no file, and, unless it raised, it counts
\* the track once as a success; a skipped track never has a tool invocation.
C1_SkipStep ==
    AtTrack /\ HasStemFile(files, folder, FilenameOf(i)) =>
        /\ calls' = calls
        /\ files' = files
        /\ pc' = "loop"
        /\ i' = i + 1
        /\ \/ /\ success_count' = success_count + 1
              /\ failed_count' = failed_count
              /\ outcomes' = Append(outcomes, "skipped")
           \/ /\ success_count' = success_count
              /\ failed_count' = failed_count + 1
              /\ outcomes' = Append(outcomes, "raised")
C1_SkippedUntouched ==
    \A k \in DOMAIN outcomes :
        outcomes[k] = "skipped" => \A n \in DOMAIN calls : calls[n].track # k
C1_ExistingSkipped == [][C1_SkipStep]_vars /\ []C1_SkippedUntouched
C1_Witness ==
    \E k \in DOMAIN outcomes :
        /\ outcomes[k] = "skipped"
        /\ HasStemFile(files, folder, FilenameOf(k))
        /\ success_count >= 1

\* C2: the loop body is entered for the tracks 1, 2, ... in order, each once;
\* a run that entered the loop returns only after all N tracks, and every
\* iteration that failed or raised is counted in failed_count.
C2_AllTracksProcessed ==
    /\ \A k \in DOMAIN processed : processed[k] = k
    /\ LoopEntered => Len(processed) <= Len(tracks.v)
    /\ LoopEntered /\ pc = "done" => Len(processed) = Len(tracks.v)
    /\ LoopEntered => Len(outcomes) \in {Len(processed) - 1, Len(processed)}
    /\ failed_count = Cardinality(Failures)
C2_Witness ==
    /\ pc = "done"
    /\ Len(outcomes) >= 2
    /\ outcomes[1] = "raised"
    /\ Len(processed) = Len(tracks.v)

\* C3: a finished run returns True exactly when some track was counted as a
\* success (downloaded or skipped).
C3_SuccessIffOne ==
    pc = "done" => /\ result \in BOOLEAN
                   /\ result = (Successes # {})
C3_Witness ==
    /\ pc = "done"
    /\ Len(outcomes) >= 1
    /\ Successes = {}
    /\ result = FALSE

\* C4: with an empty track list in the fetched data the run returns False with
\* no success and no download or search invocation.
C4_EmptyFails ==
    FetchReturned /\ save_exit = "zero" /\ EmptyTrackList(file_content) =>
        /\ NoDownloadCalls
        /\ success_count = 0
        /\ outcomes = <<>>
        /\ pc \in {"check_metadata", "check_tracks", "done"}
        /\ pc = "done" => result = FALSE
C4_Witness ==
    /\ pc = "done"
    /\ save_exit = "zero"
    /\ file_content = JList(<<>>)
    /\ Truthy(metadata)
    /\ result = FALSE

\* C5: per track at most two spotdl download invocations, the first with the
\* full flags, the second with the reduced flags and only after a failed
\* first; a failed first is always followed by the second; the primary is
\* failed only after two failures and successful once an invocation succeeded.
C5_PrimaryRetry ==
    \A k \in 1..i :
        LET p == CallsOf("spotdl_download", k) IN
        /\ Len(p) <= 2
        /\ Len(p) >= 1 => p[1].flags = "full"
        /\ Len(p) = 2 => p[2].flags = "reduced" /\ ~p[1].ok
        /\ Len(p) = 1 /\ ~p[1].ok => k = i /\ pc = "primary_retry"
        /\ k = i /\ pc = "search" /\ Len(p) >= 1 => Len(p) = 2 /\ ~p[1].ok /\ ~p[2].ok
        /\ k = i /\ pc = "tally" /\ Len(p) >= 1 /\ p[Len(p)].ok => success
C5_Witness ==
    /\ pc = "tally"
    /\ success
    /\ Len(CallsOf("spotdl_download", i)) = 2
    /\ CallsOf("spotdl_download", i)[2].ok

\* C6: a track that is not skipped is searched exactly when it has no source
\* reference or both primary invocations failed; no search follows a
\* successful primary invocation; yt-dlp download directly follows a search
\* of the same track that returned a URL, and such a search is followed by it.
C6_Fallback ==
    /\ \A n \in DOMAIN calls :
        calls[n].tool = "ytdlp_download" =>
            /\ n > 1
            /\ calls[n - 1].tool = "ytdlp_search"
            /\ calls[n - 1].track = calls[n].track
            /\ calls[n - 1].ok
    /\ \A n \in DOMAIN calls : \A m \in DOMAIN calls :
        /\ n < m
        /\ calls[n].tool = "spotdl_download"
        /\ calls[n].ok
        /\ calls[m].track = calls[n].track
        => calls[m].tool \notin {"ytdlp_search", "ytdlp_download"}
    /\ pc = "tally" =>
        LET p == CallsOf("spotdl_download", i)
            s == CallsOf("ytdlp_search", i)
            y == CallsOf("ytdlp_download", i)
            primaryFailed == Len(p) = 2 /\ ~p[1].ok /\ ~p[2].ok
        IN  /\ Len(s) <= 1
            /\ Len(s) = 1 <=> (~Truthy(cur.spotify_url) \/ primaryFailed)
            /\ ~Truthy(cur.spotify_url) => Len(p) = 0
            /\ Len(y) = 1 <=> (Len(s) = 1 /\ s[1].ok)
C6_Witness ==
    /\ pc = "tally"
    /\ ~Truthy(cur.spotify_url)
    /\ Len(CallsOf("ytdlp_search", i)) = 1
    /\ Len(CallsOf("ytdlp_download", i)) = 1
    /\ success

\* C7: once fetch_playlist_data has returned after spotdl save exited zero,
\* the temp file is deleted, whether or not its content could be parsed.
C7_TempDeleted ==
    FetchReturned /\ save_exit = "zero" => temp_file = "deleted"

\* C8: when spotdl save fails or its output is unparsable or neither a record
\* nor a sequence, fetch returns None, the run returns False, no directory or
\* file of the output directory changes and no download or search tool runs.
C8_FailedInv ==
    FetchFailed =>
        /\ metadata = None
        /\ pc \in {"check_metadata", "done"}
        /\ pc = "done" => result = FALSE
        /\ NoDownloadCalls
C8_FailedStep ==
    FetchFailed => dirs' = dirs /\ files' = files
C8_FetchFailureFrame == []C8_FailedInv /\ [][C8_FailedStep]_vars
C8_Witness ==
    /\ pc = "done"
    /\ save_exit = "zero"
    /\ file_content = JNum(7)
    /\ result = FALSE
    /\ dirs = {}

\* C9: for a bare sequence of tracks the record has those tracks in order, the
\* classifier's type, and the name Spotify_<Type>_<id8>, Type being the
\* classifier's type and id8 the first 8 characters after that type's path
\* marker up to the next "?".
C9_IdSegment(u) ==
    LET path == get_url_type(u) \o <<"/">>
        at == Find(Lower(u), path)
    IN  SplitFirst(Drop(u, at + Len(path)), <<"?">>)
C9_ListRecord ==
    FetchReturned /\ save_exit = "zero" /\ file_content.tag = "list" =>
        /\ metadata.tag = "dict"
        /\ metadata.v["songs"] = file_content
        /\ metadata.v["type"] = JStr(get_url_type(url))
        /\ metadata.v["name"] =
              JStr(NameServicePrefix \o Title(get_url_type(url)) \o <<"_">>
                     \o Take(C9_IdSegment(url), IdLen))

\* C10: get_url_type yields playlist whenever the lowercased URL holds the
\* playlist marker, album when it holds only the album marker, unknown
\* otherwise, and is_valid_spotify_url holds exactly when the type is not
\* unknown.
C10_Classifier ==
    pc = "url_checked" =>
        /\ url_type \in {StrPlaylist, StrAlbum, StrUnknown}
        /\ HasMarker(url, PlaylistMarker) => url_type = StrPlaylist
        /\ ~HasMarker(url, PlaylistMarker) /\ HasMarker(url, AlbumMarker) => url_type = StrAlbum
        /\ ~HasMarker(url, PlaylistMarker) /\ ~HasMarker(url, AlbumMarker) => url_type = StrUnknown
        /\ valid <=> url_type # StrUnknown
C10_Witness ==
    /\ pc = "url_checked"
    /\ HasMarker(url, PlaylistMarker)
    /\ HasMarker(url, AlbumMarker)
    /\ url_type = StrPlaylist
    /\ valid


\* C11: sanitising is idempotent and never returns more than 200 characters:
\* clean_filename applied to its own result gives that result again, also
\* when the cut at the cap falls next to whitespace.
C11_Idempotent ==
    pc = "san_twice" => san_twice = san_out /\ Len(san_out) <= MaxNameLen


\* C12: clean_filename never returns the empty string, so the folder a run
\* creates is a proper subdirectory of the output root: once the folder has
\* been created its name under the output root is not empty.
C12_FolderBelowRoot ==
    pc \in {"save_metadata", "loop"} => folder # <<>>


\* the record a track value is read from: the value itself or its first element
IsRecord(x) == x.tag = "dict" /\ {"name", "artists", "url"} \subseteq DOMAIN x.v
RecordShaped(t) ==
    \/ IsRecord(t)
    \/ t.tag = "list" /\ Len(t.v) > 0 /\ IsRecord(t.v[1])
RecordOf(t) == IF t.tag = "dict" THEN t ELSE t.v[1]
UsableName(n) == Truthy(n) /\ n # JStr(StrUnknownCap)
\* the strings of l with ", " between them
RECURSIVE Joined(_)
Joined(l) ==
    IF Len(l) = 0 THEN <<>>
    ELSE IF Len(l) = 1 THEN l[1]
    ELSE l[1] \o StrSep \o Joined(Tail(l))
ArtistDisplay(a) == Joined([k \in DOMAIN SelectSeq(a.v, Truthy) |-> SelectSeq(a.v, Truthy)[k].v])
RecordRead(t) ==
    [title |-> RecordOf(t).v["name"],
     artist_str |-> ArtistDisplay(RecordOf(t).v["artists"]),
     spotify_url |-> RecordOf(t).v["url"]]

\* C13 as stated: for every record with name/artists/url fields (or a sequence
\* that starts with one) whose artists are a list, the result is the name, the
\* truthy artists joined with ", ", and the url of that record.
C13_RecordReadAny ==
    pc = "track_done" /\ RecordShaped(track_in)
        /\ RecordOf(track_in).v["artists"].tag = "list"
    => track_out = RecordRead(track_in)

\* C13 amended: the same, for records whose name is usable as a title, that is
\* neither empty nor the literal "Unknown".
C13_RecordRead ==
    pc = "track_done" /\ RecordShaped(track_in)
        /\ RecordOf(track_in).v["artists"].tag = "list"
        /\ UsableName(RecordOf(track_in).v["name"])
    => track_out = RecordRead(track_in)

\* the spec's example, wrapped in a sequence: {name:'Song', artists:['A','B'],
\* url:'spotify:track:1'} gives ('Song', 'A, B', 'spotify:track:1')
C13_Witness ==
    /\ pc = "track_done"
    /\ track_in = JList(<<TrackRecordWith(JStr(StrSong),
                                          JList(<<JStr(<<"A">>), JStr(<<"B">>)>>))>>)
    /\ track_out = [title |-> JStr(StrSong),
                    artist_str |-> <<"A", ",", " ", "B">>,
                    spotify_url |-> JStr(StrTrackRef)]

\* C14: for a track value that is neither a record nor a non-empty sequence
\* starting with a record, the result is the stringified value as title, the
\* artist string "Unknown" and an empty url.
C14_OtherShapes ==
    pc = "track_done" /\ track_in \in OtherTracks
    => track_out = [title |-> JStr(PyStr(track_in)),
                    artist_str |-> StrUnknownCap,
                    spotify_url |-> JStr(<<>>)]


\* C15: a collection downloaded again is resumed: every track the first run
\* counted as Success is counted as Success again in the second run (it is
\* skipped) and no download or search tool is invoked for it. The first run
\* is the one of the playlist URL; an iteration of the second run that raises
\* is left aside.
C15_Resumable ==
    run > 1 /\ url = UrlPlaylist =>
        \A k \in DOMAIN outcomes :
            prev_run[k] \in {"skipped", "downloaded"} /\ outcomes[k] # "raised"
            => /\ outcomes[k] = "skipped"
               /\ \A t \in DownloadTools : CallsOf(t, k) = <<>>


SidecarNames == {StrPlaylist \o StrInfoSuffix, StrAlbum \o StrInfoSuffix}
SidecarsIn(d) == {f \in SidecarNames : <<d, f>> \in files}
MediaIn(d) == {e \in files : e[1] = d /\ e[2] \notin SidecarNames}

\* C16: after any runs, every collection folder that contains downloaded media
\* contains exactly one sidecar, playlist_info.json or album_info.json.
C16_OneSidecar ==
    \A d \in dirs : MediaIn(d) # {} => Cardinality(SidecarsIn(d)) = 1


\* C17: once the loop is entered, success_count and failed_count count the
\* finished iterations that ended in success (downloaded or skipped) and in
\* failure (failed or raised); between iterations their sum is the number of
\* tracks processed so far, and when the run has returned from the loop it is
\* the number of tracks.
C17_CountsAddUp ==
    LoopEntered =>
        /\ success_count = Cardinality(Successes)
        /\ failed_count = Cardinality(Failures)
        /\ success_count + failed_count = Len(outcomes)
        /\ pc = "loop" => Len(processed) = i - 1 /\ success_count + failed_count = i - 1
        /\ pc = "done" => success_count + failed_count = Len(tracks.v)

\* a run over two tracks has returned: the first was downloaded, the second skipped
C17_Witness ==
    /\ pc = "done"
    /\ outcomes = <<"downloaded", "skipped">>
    /\ success_count + failed_count = Len(tracks.v)


SidecarMissing == <<folder, url_type \o StrInfoSuffix>> \notin files
FolderMade == folder \in dirs

\* C18: a failed sidecar write is not fatal and changes nothing else. A run
\* whose folder was made and whose sidecar is missing still returns only
\* after every track was processed, with the counters adding up to the number
\* of tracks and the result being whether some track succeeded; and the
\* existing-file check of every track gives the same answer with and without
\* the sidecar in the folder, which is the only place the sidecar could be read.
C18_SidecarNotFatal ==
    /\ pc = "done" /\ FolderMade /\ SidecarMissing
        => /\ Len(processed) = Len(tracks.v)
           /\ success_count + failed_count = Len(tracks.v)
           /\ result = (Successes # {})
    /\ AtTrack
        => \A oid \in ObjIds :
              LET filename == TrackFilename(extract_track_details(tracks.v[i], oid)) IN
              existing_files(files, folder, filename)
                  = existing_files(files \cup {<<folder, url_type \o StrInfoSuffix>>},
                                   folder, filename)

\* the sidecar was not written, both tracks were processed and the run succeeded
C18_Witness ==
    /\ pc = "done"
    /\ FolderMade
    /\ SidecarMissing
    /\ Len(processed) = 2
    /\ result = TRUE


KnownTools == {"spotdl_save"} \cup DownloadTools
CallBounds ==
    /\ Len(CallsOf("spotdl_save", 0)) <= 1
    /\ \A n \in DOMAIN calls :
        /\ calls[n].tool \in KnownTools
        /\ calls[n].tool = "spotdl_save" <=> calls[n].track = 0
        /\ calls[n].track > 0 => LoopEntered /\ calls[n].track <= Len(tracks.v)
        /\ Len(CallsOf("spotdl_download", calls[n].track)) <= 2
        /\ Len(CallsOf("ytdlp_search", calls[n].track)) <= 1
        /\ Len(CallsOf("ytdlp_download", calls[n].track)) <= 1

\* C19: when every tool invocation returns, download_collection returns; and
\* at all times the run has made at most one spotdl save invocation and, for
\* each track, at most two spotdl download invocations, one search and one
\* yt-dlp download, and no other invocation.
C19_TerminatesBounded == <>(pc = "done") /\ []CallBounds

\* a run has returned after the most invocations a run can make
C19_Witness ==
    /\ pc = "done"
    /\ LoopEntered
    /\ Len(tracks.v) = MaxTracks
    /\ Len(calls) = 1 + 4 * Len(tracks.v)


\* C20: in the download sub-flow a download is started only with an input
\* that passes URL validation; a download that returns False or raises is
\* followed by the prompt; and the sub-flow is left only from the prompt, on
\* a line that is 'done', 'exit', 'quit' or empty once stripped and lowercased.
C20_SubFlow ==
    [][/\ pc' = "downloading" => pc = "prompt" /\ is_valid_spotify_url(user_input')
                                   /\ url' = user_input'
       /\ pc = "downloading" => pc' = "prompt"
       /\ pc' = "menu_exit" => pc = "prompt" /\ Lower(user_input') \in Sentinels]_vars

\* a download raised, the prompt came back and the sub-flow ended on a sentinel
C20_Witness ==
    /\ pc = "menu_exit"
    /\ dl_outcome = "raised"
    /\ user_input = StrQuit


\* C21: no temp file outlives fetch_playlist_data: once fetch has returned,
\* on whatever path (spotdl save exiting nonzero or not starting included),
\* the temp file it created does not exist any more.
C21_NoTempLeft ==
    FetchReturned => temp_file # "exists"


\* C22: a track is skipped only because of a file of that track: whenever a
\* track was recorded as skipped, the folder holds a file whose name without
\* its final extension is the track's sanitized filename.
C22_SkippedOwnFile ==
    \A k \in DOMAIN outcomes :
        outcomes[k] = "skipped" => HasStemFile(files, folder, FilenameOf(k))

====
